---- MODULE Spec2Model ----
(***************************************************************************)
(* Tee & Seele backend (src/main.py, src/schemas.py): the profile          *)
(* heuristic compute_profile, the tea ranking match_teas, the startup      *)
(* seeding of the tea catalog and the /interaction and /analyze handlers.  *)
(*                                                                         *)
(* Numbers.  The code computes in floats; the model computes in exact      *)
(* rationals.  Every axis value is held in units of 1/Scale, Scale being   *)
(* the least common multiple of the divisors 2, 3 and 5 of the heuristic,  *)
(* so that val / 2, val / 3 and val / 5 of an integer val are exact.       *)
(* Intensities and values are drawn from integers.                         *)
(*                                                                         *)
(* Optional fields.  None is the empty tuple, a present number x is <<x>>. *)
(***************************************************************************)
EXTENDS Integers, Sequences, FiniteSets, TLC

VARIABLES
    \* ---- compute_profile, run as its loop (SpecProfile)
    events,          \* the argument: a list of stored event documents
    idx,             \* position of the for loop (next event to process)
    calm, clarity, energy, grounding,   \* the four running accumulators
    pPc,             \* "loop" | "done"
    pResult,         \* what compute_profile returned or raised
    \* ---- match_teas (SpecMatch)
    mProfile,        \* the argument profile
    mTeas,           \* the argument catalog: a list of tea documents
    ordered,         \* the local `ordered`, as catalog positions
    top,             \* the returned slugs
    mPc,             \* "call" | "done"
    \* ---- the service (Spec, SpecSeq)
    dbAvailable,     \* db is not None
    interactionevent,\* collection "interactionevent"
    tea,             \* collection "tea"
    recommendation,  \* collection "recommendation"
    seedPc,          \* per process: "down" | "start" | "counted" | "up"
    seedCount,       \* per process: the local `count`
    aPc,             \* per /analyze request: "idle" | "find_events" | "find_teas" | "create" | "done"
    aSession,        \* per request: the session_id argument
    aProfile,        \* per request: the local `profile`
    aTop,            \* per request: the local `top`
    aOutcome,        \* per request: "none" | "ok" | "error500"
    aStartLen,       \* per request: size of the event store when the call started (history)
    aReadLen,        \* per request: size of the event store when it was read (history)
    recMeta          \* per written recommendation: the request's aStartLen, aReadLen (history)

profVars == <<events, idx, calm, clarity, energy, grounding, pPc, pResult>>
matchVars == <<mProfile, mTeas, ordered, top, mPc>>
storeVars == <<interactionevent, tea, recommendation>>
seedVars == <<seedPc, seedCount>>
reqVars == <<aPc, aSession, aProfile, aTop, aOutcome, aStartLen, aReadLen, recMeta>>
sysVars == <<dbAvailable, storeVars, seedVars, reqVars>>
vars == <<profVars, matchVars, sysVars>>

\* ------------------------------------------------------------------ bounds
MaxLen == 3          \* longest event list given to compute_profile
MaxCatalog == 4      \* longest catalog given to match_teas
MaxStored == 2       \* most events inserted into the event store

\* ------------------------------------------------------------------ helpers
None == <<>>
Some(x) == <<x>>
Scale == 2 * 3 * 5
Max(a, b) == IF a >= b THEN a ELSE b
Min(a, b) == IF a <= b THEN a ELSE b
Range(s) == {s[i] : i \in 1..Len(s)}

\* x or d, for an optional number: None and 0 are both falsy
OrDefault(x, d) == IF x = None THEN d ELSE IF x[1] = 0 THEN d ELSE x[1]

EventTypes ==
    {"cloud_touch", "light_collect", "maze_time", "breath_pace", "scroll_depth", "companion_tap"}

Baseline == [calm |-> 50 * Scale, clarity |-> 50 * Scale, energy |-> 50 * Scale, grounding |-> 50 * Scale]

\* ApplyEvent with the breath_pace branch writing clarity instead of calm
ApplyEvent_breathOnClarity(a, e) ==
    LET et == e.type
        inten == OrDefault(e.intensity, 1) * Scale
        val == OrDefault(e.value, 0) * Scale
    IN  CASE et = "cloud_touch" ->
               [a EXCEPT !.calm = Max(0, a.calm - 3 * inten),
                         !.grounding = Min(100 * Scale, a.grounding + 2 * inten)]
          [] et = "light_collect" ->
               [a EXCEPT !.energy = Min(100 * Scale, a.energy + 4 * inten),
                         !.clarity = Min(100 * Scale, a.clarity + 2 * inten)]
          [] et = "maze_time" ->
               [a EXCEPT !.clarity = Max(0, a.clarity - Min(20 * Scale, val \div 2)),
                         !.grounding = Max(0, a.grounding - Min(15 * Scale, val \div 3))]
          [] et = "breath_pace" ->
               [a EXCEPT !.clarity = Min(100 * Scale, a.clarity + Max(0, 5 * Scale - Min(val, 5 * Scale)) * 2)]
          [] et = "scroll_depth" ->
               [a EXCEPT !.energy = Min(100 * Scale, a.energy + Min(20 * Scale, val \div 5))]
          [] et = "companion_tap" ->
               [a EXCEPT !.grounding = Min(100 * Scale, a.grounding + 5 * inten)]
          [] OTHER -> a

\* one iteration of the for loop of compute_profile on accumulators a and event e
ApplyEvent(a, e) ==
    LET et == e.type
        inten == OrDefault(e.intensity, 1) * Scale
        val == OrDefault(e.value, 0) * Scale
    IN  CASE et = "cloud_touch" ->
               [a EXCEPT !.calm = Max(0, a.calm - 3 * inten),
                         !.grounding = Min(100 * Scale, a.grounding + 2 * inten)]
          [] et = "light_collect" ->
               [a EXCEPT !.energy = Min(100 * Scale, a.energy + 4 * inten),
                         !.clarity = Min(100 * Scale, a.clarity + 2 * inten)]
          [] et = "maze_time" ->
               [a EXCEPT !.clarity = Max(0, a.clarity - Min(20 * Scale, val \div 2)),
                         !.grounding = Max(0, a.grounding - Min(15 * Scale, val \div 3))]
          [] et = "breath_pace" ->
               [a EXCEPT !.calm = Min(100 * Scale, a.calm + Max(0, 5 * Scale - Min(val, 5 * Scale)) * 2)]
          [] et = "scroll_depth" ->
               [a EXCEPT !.energy = Min(100 * Scale, a.energy + Min(20 * Scale, val \div 5))]
          [] et = "companion_tap" ->
               [a EXCEPT !.grounding = Min(100 * Scale, a.grounding + 5 * inten)]
          [] OTHER -> a

\* the Field(ge=0, le=100) constraint of one axis of EmotionalProfile
AxisValid(x) == 0 <= x /\ x <= 100 * Scale

\* EmotionalProfile(calmness=.., clarity=.., energy=.., grounding=..): the
\* validated model, or pydantic's ValidationError (which reports the inputs)
EmotionalProfile(c, cl, en, g) ==
    [status |-> IF AxisValid(c) /\ AxisValid(cl) /\ AxisValid(en) /\ AxisValid(g)
                THEN "ok" ELSE "ValidationError",
     calmness |-> c, clarity |-> cl, energy |-> en, grounding |-> g]

RECURSIVE FoldEvents(_, _)
FoldEvents(a, es) == IF es = <<>> THEN a ELSE FoldEvents(ApplyEvent(a, Head(es)), Tail(es))

\* compute_profile as a function of its argument
compute_profile(es) ==
    LET a == FoldEvents(Baseline, es)
    IN  EmotionalProfile(a.calm, a.clarity, a.energy, a.grounding)

\* ---------------------------------------------------------------- idle parts
Processes == {"p1", "p2"}
Requests == {1, 2}

ProfIdle ==
    /\ events = <<>> /\ idx = 1 /\ pPc = "done" /\ pResult = None
    /\ calm = Baseline.calm /\ clarity = Baseline.clarity
    /\ energy = Baseline.energy /\ grounding = Baseline.grounding

MatchIdle ==
    /\ mProfile = None /\ mTeas = <<>> /\ ordered = <<>> /\ top = <<>> /\ mPc = "done"

SysIdle ==
    /\ dbAvailable = TRUE
    /\ interactionevent = <<>> /\ tea = <<>> /\ recommendation = <<>>
    /\ seedPc = [p \in Processes |-> "up"]
    /\ seedCount = [p \in Processes |-> None]
    /\ aPc = [r \in Requests |-> "done"]
    /\ aSession = [r \in Requests |-> None]
    /\ aProfile = [r \in Requests |-> None]
    /\ aTop = [r \in Requests |-> None]
    /\ aOutcome = [r \in Requests |-> "none"]
    /\ aStartLen = [r \in Requests |-> 0]
    /\ aReadLen = [r \in Requests |-> 0]
    /\ recMeta = <<>>

\* ------------------------------------------------- compute_profile as a loop
\* Stored event documents: InteractionEvent admits the 6 types, an intensity
\* that is None or in [0,10], and a value that is None or any number.
Intensities == {None, Some(0), Some(2), Some(10)}
Values == {None, Some(-300), Some(4), Some(120)}
IntensityTypes == {"cloud_touch", "light_collect", "companion_tap"}
ValueTypes == {"maze_time", "breath_pace", "scroll_depth"}

Event(s, t, i, v) == [session_id |-> s, type |-> t, intensity |-> i, value |-> v]

\* the event documents the profile specification draws from: each type with
\* the field its branch reads
ProfileEvents ==
    {Event("s1", t, i, None) : t \in IntensityTypes, i \in Intensities}
        \cup {Event("s1", t, Some(1), v) : t \in ValueTypes, v \in Values}

SeqsUpTo(S, n) == UNION {[1..k -> S] : k \in 0..n}

InitProfile ==
    /\ events \in SeqsUpTo(ProfileEvents, MaxLen)
    /\ idx = 1
    /\ calm = Baseline.calm /\ clarity = Baseline.clarity
    /\ energy = Baseline.energy /\ grounding = Baseline.grounding
    /\ pPc = "loop"
    /\ pResult = None
    /\ MatchIdle /\ SysIdle

\* for e in events: one iteration
LoopStep ==
    /\ pPc = "loop" /\ idx <= Len(events)
    /\ LET a == ApplyEvent([calm |-> calm, clarity |-> clarity, energy |-> energy,
                            grounding |-> grounding], events[idx])
       IN  /\ calm' = a.calm /\ clarity' = a.clarity
           /\ energy' = a.energy /\ grounding' = a.grounding
    /\ idx' = idx + 1
    /\ UNCHANGED <<events, pPc, pResult, matchVars, sysVars>>

\* return EmotionalProfile(...), which validates the axes
ReturnProfile ==
    /\ pPc = "loop" /\ idx > Len(events)
    /\ pResult' = EmotionalProfile(calm, clarity, energy, grounding)
    /\ pPc' = "done"
    /\ UNCHANGED <<events, idx, calm, clarity, energy, grounding, matchVars, sysVars>>

NextProfile == LoopStep \/ ReturnProfile

SpecProfile == InitProfile /\ [][NextProfile]_vars

\* ------------------------------------------------------------------ match_teas
\* Tea axes are held in twentieths (0.05 is 1, 0.95 is 19); the other fields
\* of a tea document (name, latin, tags, ...) are read by no code modelled here.
Tea(slug, c, cl, en, g) ==
    [slug |-> slug, axes |-> [calmness |-> c, clarity |-> cl, energy |-> en, grounding |-> g]]

DEFAULT_TEAS ==
    << Tea("kamille", 18, 8, 2, 12),
       Tea("melisse", 16, 12, 4, 10),
       Tea("ingwer", 4, 10, 18, 14),
       Tea("baldrian", 19, 6, 1, 18) >>

\* axes.get(a, 0)
AxisOf(t, a) == IF a \in DOMAIN t.axes THEN t.axes[a] ELSE 0

\* sum(target[a] * axes.get(a, 0) for a in target), in units of
\* 1 / (100 * Scale * 20)
Dot(profile, t) ==
    profile.calmness * AxisOf(t, "calmness") + profile.clarity * AxisOf(t, "clarity")
        + profile.energy * AxisOf(t, "energy") + profile.grounding * AxisOf(t, "grounding")

\* sum(axes.get(a, 0) ** 2 for a in target), in units of 1 / 400
NormSq(t) ==
    AxisOf(t, "calmness") * AxisOf(t, "calmness") + AxisOf(t, "clarity") * AxisOf(t, "clarity")
        + AxisOf(t, "energy") * AxisOf(t, "energy") + AxisOf(t, "grounding") * AxisOf(t, "grounding")

\* a * a * n as three digits base 1000 (most significant first, the first
\* unbounded), for 0 <= a < 10^6 and 0 <= n <= 2000: the products of the
\* comparison below exceed the range of TLC's integers
SquareTimes(a, n) ==
    LET ah == a \div 1000
        al == a % 1000
        c0 == al * al * n
        c1 == 2 * ah * al * n + (c0 \div 1000)
        c2 == ah * ah * n + (c1 \div 1000)
    IN  <<c2, c1 % 1000, c0 % 1000>>

\* -1, 0, 1 as the digit string x is below, equal to, above y
CmpDigits(x, y) ==
    IF x[1] # y[1] THEN (IF x[1] < y[1] THEN -1 ELSE 1)
    ELSE IF x[2] # y[2] THEN (IF x[2] < y[2] THEN -1 ELSE 1)
    ELSE IF x[3] # y[3] THEN (IF x[3] < y[3] THEN -1 ELSE 1)
    ELSE 0

CmpInt(a, b) == IF a < b THEN -1 ELSE IF a > b THEN 1 ELSE 0

\* CmpScore with the norms left out: the teas compared by dot product alone
CmpScore_dotOnly(profile, t1, t2) == CmpInt(Dot(profile, t1), Dot(profile, t2))

\* The order of score(t1) and score(t2) for non-negative axes, score(t) being
\* dot / ((sqrt(normsq) + 1e-8) * norm_p): -1, 0 or 1.  norm_p is common to
\* both.  A zero dot product scores exactly 0.  Otherwise the cosines
\* dot / sqrt(normsq) decide, compared as dot1^2 * normsq2 against
\* dot2^2 * normsq1; when the cosines are equal the 1e-8 added to the tea's
\* norm weighs less on the longer vector, which then scores higher, and
\* vectors of equal cosine and equal length score the same.
CmpScore(profile, t1, t2) ==
    LET a == Dot(profile, t1)
        b == Dot(profile, t2)
        c == CmpDigits(SquareTimes(a, NormSq(t2)), SquareTimes(b, NormSq(t1)))
    IN  IF a = 0 \/ b = 0 THEN CmpInt(a, b)
        ELSE IF c # 0 THEN c
        ELSE CmpInt(a, b)

\* the list acc of catalog positions, sorted by descending score, with
\* position j put behind every position whose score is at least its own
InsertDescending(profile, teas, acc, j) ==
    LET ahead == {k \in 1..Len(acc) :
                    \A m \in 1..k : CmpScore(profile, teas[acc[m]], teas[j]) >= 0}
        n == Cardinality(ahead)
    IN  SubSeq(acc, 1, n) \o <<j>> \o SubSeq(acc, n + 1, Len(acc))

\* the list acc sorted by ascending score, with position j put behind every
\* position whose score is at most its own
InsertAscending(profile, teas, acc, j) ==
    LET ahead == {k \in 1..Len(acc) :
                    \A m \in 1..k : CmpScore(profile, teas[acc[m]], teas[j]) <= 0}
        n == Cardinality(ahead)
    IN  SubSeq(acc, 1, n) \o <<j>> \o SubSeq(acc, n + 1, Len(acc))

RECURSIVE SortAscendingFrom(_, _, _, _)
SortAscendingFrom(profile, teas, acc, j) ==
    IF j > Len(teas) THEN acc
    ELSE SortAscendingFrom(profile, teas, InsertAscending(profile, teas, acc, j), j + 1)

Reverse(s) == [k \in 1..Len(s) |-> s[Len(s) + 1 - k]]

\* sorted(teas, key=score)[::-1]: ascending, then reversed
sorted_reverse_byReversal(profile, teas) == Reverse(SortAscendingFrom(profile, teas, <<>>, 1))

RECURSIVE SortDescendingFrom(_, _, _, _)
SortDescendingFrom(profile, teas, acc, j) ==
    IF j > Len(teas) THEN acc
    ELSE SortDescendingFrom(profile, teas, InsertDescending(profile, teas, acc, j), j + 1)

\* sorted(teas, key=score, reverse=True), as the list of catalog positions:
\* Python's sort is stable, and reverse=True keeps equal keys in their
\* original order
sorted_reverse(profile, teas) == SortDescendingFrom(profile, teas, <<>>, 1)

\* ordered[:4]
Slice_four(s) == SubSeq(s, 1, Min(4, Len(s)))

\* ordered[:3]
Slice(s) == SubSeq(s, 1, Min(3, Len(s)))

\* [t["slug"] for t in ordered[:3]]
TopSlugs(teas, ord) == [k \in 1..Len(Slice(ord)) |-> teas[Slice(ord)[k]].slug]

\* match_teas as a function of its arguments
match_teas(profile, teas) == TopSlugs(teas, sorted_reverse(profile, teas))

Profile(c, cl, en, g) == EmotionalProfile(c * Scale, cl * Scale, en * Scale, g * Scale)

\* the profiles the matcher specification draws from (each a validated
\* EmotionalProfile)
MatchProfiles ==
    { Profile(90, 40, 10, 60), Profile(50, 50, 50, 50), Profile(0, 0, 0, 0),
      Profile(100, 0, 0, 0), Profile(44, 50, 50, 54), Profile(20, 50, 90, 70) }

\* the tea documents the matcher specification draws from: the defaults, a
\* tea without axes, a tea with one axis, a tea along kamille at half length
\* and a tea with the axes of melisse under another slug
TeaPool ==
    Range(DEFAULT_TEAS)
        \cup { [slug |-> "wasser", axes |-> <<>>],
               [slug |-> "minze", axes |-> [energy |-> 10]],
               Tea("kamille-mild", 9, 4, 1, 6),
               Tea("zitronenmelisse", 16, 12, 4, 10) }

InitMatch ==
    /\ mProfile \in MatchProfiles
    /\ mTeas \in SeqsUpTo(TeaPool, MaxCatalog)
    /\ ordered = <<>> /\ top = <<>>
    /\ mPc = "call"
    /\ ProfIdle /\ SysIdle

\* one call of match_teas
MatchTeas ==
    /\ mPc = "call"
    /\ ordered' = sorted_reverse(mProfile, mTeas)
    /\ top' = TopSlugs(mTeas, ordered')
    /\ mPc' = "done"
    /\ UNCHANGED <<mProfile, mTeas, profVars, sysVars>>

NextMatch == MatchTeas

SpecMatch == InitMatch /\ [][NextMatch]_vars

\* ------------------------------------------------------------------ the service
\* Processes of the deployment share one database; each runs startup_event,
\* and with it seed_teas_if_empty, when it starts.  The /analyze calls
\* are numbered in the order they arrive.  Every call of a
\* collection method is one step; what a handler computes between two calls
\* belongs to the step of the call before it.

\* InteractionEvent(...): the type is one of the 6 literals, the intensity is
\* None or in [0,10], the value is None or any number
InteractionEventValid(e) ==
    /\ e.type \in EventTypes
    /\ e.intensity = None \/ (0 <= e.intensity[1] /\ e.intensity[1] <= 10)

\* create_document(collection_name, data) of the database module: appends
\* the document; fails, writing nothing, when there is no database
create_document(collection, doc) == IF dbAvailable THEN Append(collection, doc) ELSE collection

\* the bodies POST /interaction is called with: two that validate and one
\* whose intensity is out of range
InteractionInputs ==
    { Event("s1", "maze_time", Some(1), Some(-300)),
      Event("s2", "cloud_touch", Some(10), None),
      Event("s1", "companion_tap", Some(11), None) }

SessionIds == {"s1", "s2"}

Serving == \E p \in Processes : seedPc[p] = "up"
SeedRunning == {p \in Processes : seedPc[p] \in {"start", "counted"}}

\* the processes whose run of seed_teas_if_empty has returned
SeedRunsDone == {p \in Processes : seedPc[p] = "up"}

\* a process starts: its startup_event is about to run
Startup(p) ==
    /\ seedPc[p] = "down"
    /\ seedPc' = [seedPc EXCEPT ![p] = "start"]
    /\ UNCHANGED <<seedCount, dbAvailable, storeVars, reqVars, profVars, matchVars>>

\* seed_teas_if_empty, to count = db["tea"].count_documents({})
SeedCount(p) ==
    /\ seedPc[p] = "start"
    /\ IF ~dbAvailable
       THEN /\ seedPc' = [seedPc EXCEPT ![p] = "up"]
            /\ UNCHANGED seedCount
       ELSE /\ seedCount' = [seedCount EXCEPT ![p] = Some(Len(tea))]
            /\ seedPc' = [seedPc EXCEPT ![p] = "counted"]
    /\ UNCHANGED <<dbAvailable, storeVars, reqVars, profVars, matchVars>>

\* if count == 0, always
SeedWanted_always(count) == count >= 0

\* if count == 0
SeedWanted(count) == count = 0

\* seed_teas_if_empty, from the test of count: db["tea"].insert_many(DEFAULT_TEAS)
SeedInsert(p) ==
    /\ seedPc[p] = "counted"
    /\ tea' = IF SeedWanted(seedCount[p][1]) THEN tea \o DEFAULT_TEAS ELSE tea
    /\ seedPc' = [seedPc EXCEPT ![p] = "up"]
    /\ UNCHANGED <<seedCount, dbAvailable, interactionevent, recommendation, reqVars,
                   profVars, matchVars>>

\* POST /interaction
track_interaction(e) ==
    /\ Serving
    /\ Len(interactionevent) < MaxStored
    /\ interactionevent' = IF InteractionEventValid(e)
                           THEN create_document(interactionevent, e)
                           ELSE interactionevent
    /\ UNCHANGED <<dbAvailable, tea, recommendation, seedVars, reqVars, profVars, matchVars>>

\* find({}, {"_id": 0}): no session filter
FindEvents_all(store, sid) == store

\* db["interactionevent"].find({"session_id": session_id}, {"_id": 0})
FindEvents(store, sid) == SelectSeq(store, LAMBDA e : e.session_id = sid)

\* POST /analyze without its test of db
analyze_begin_unchecked(r, sid) ==
    /\ Serving
    /\ aPc[r] = "idle" /\ \A q \in Requests : q < r => aPc[q] # "idle"
    /\ aPc' = [aPc EXCEPT ![r] = "find_events"]
    /\ aSession' = [aSession EXCEPT ![r] = sid]
    /\ aStartLen' = [aStartLen EXCEPT ![r] = Len(interactionevent)]
    /\ UNCHANGED <<aOutcome, aProfile, aTop, aReadLen, recMeta, dbAvailable, storeVars, seedVars,
                   profVars, matchVars>>

\* POST /analyze, the call and its test of db: HTTPException(500) when db is None
analyze_begin(r, sid) ==
    /\ Serving
    /\ aPc[r] = "idle" /\ \A q \in Requests : q < r => aPc[q] # "idle"
    /\ aSession' = [aSession EXCEPT ![r] = sid]
    /\ aStartLen' = [aStartLen EXCEPT ![r] = Len(interactionevent)]
    /\ IF ~dbAvailable
       THEN /\ aPc' = [aPc EXCEPT ![r] = "done"]
            /\ aOutcome' = [aOutcome EXCEPT ![r] = "error500"]
       ELSE /\ aPc' = [aPc EXCEPT ![r] = "find_events"]
            /\ UNCHANGED aOutcome
    /\ UNCHANGED <<aProfile, aTop, aReadLen, recMeta, dbAvailable, storeVars, seedVars,
                   profVars, matchVars>>

\* events = list(db["interactionevent"].find(...)); profile = compute_profile(events):
\* a ValidationError of EmotionalProfile ends the request with a 500
analyze_find_events(r) ==
    /\ aPc[r] = "find_events"
    /\ LET profile == compute_profile(FindEvents(interactionevent, aSession[r]))
       IN  /\ aReadLen' = [aReadLen EXCEPT ![r] = Len(interactionevent)]
           /\ IF profile.status = "ok"
              THEN /\ aProfile' = [aProfile EXCEPT ![r] = profile]
                   /\ aPc' = [aPc EXCEPT ![r] = "find_teas"]
                   /\ UNCHANGED aOutcome
              ELSE /\ aPc' = [aPc EXCEPT ![r] = "done"]
                   /\ aOutcome' = [aOutcome EXCEPT ![r] = "error500"]
                   /\ UNCHANGED aProfile
    /\ UNCHANGED <<aSession, aTop, aStartLen, recMeta, dbAvailable, storeVars, seedVars,
                   profVars, matchVars>>

\* teas = list(db["tea"].find({}, {"_id": 0})); top = match_teas(profile, teas)
analyze_find_teas(r) ==
    /\ aPc[r] = "find_teas"
    /\ aTop' = [aTop EXCEPT ![r] = match_teas(aProfile[r], tea)]
    /\ aPc' = [aPc EXCEPT ![r] = "create"]
    /\ UNCHANGED <<aSession, aProfile, aOutcome, aStartLen, aReadLen, recMeta, dbAvailable,
                   storeVars, seedVars, profVars, matchVars>>

\* RecommendationModel(session_id=.., profile=.., teas=top, rationale=..)
RecommendationModel(sid, profile, teas) ==
    [session_id |-> sid, profile |-> profile, teas |-> teas,
     rationale |-> "Basierend auf deinen Interaktionen in der Welt."]

\* create_document("recommendation", rec); return rec
analyze_create(r) ==
    /\ aPc[r] = "create"
    /\ recommendation' =
          create_document(recommendation, RecommendationModel(aSession[r], aProfile[r], aTop[r]))
    /\ recMeta' = Append(recMeta, [startLen |-> aStartLen[r], readLen |-> aReadLen[r]])
    /\ aOutcome' = [aOutcome EXCEPT ![r] = "ok"]
    /\ aPc' = [aPc EXCEPT ![r] = "done"]
    /\ UNCHANGED <<aSession, aProfile, aTop, aStartLen, aReadLen, dbAvailable, interactionevent,
                   tea, seedVars, profVars, matchVars>>

Init ==
    /\ dbAvailable \in BOOLEAN
    /\ interactionevent = <<>> /\ tea = <<>> /\ recommendation = <<>>
    /\ seedPc = [p \in Processes |-> "down"]
    /\ seedCount = [p \in Processes |-> None]
    /\ aPc = [r \in Requests |-> "idle"]
    /\ aSession = [r \in Requests |-> None]
    /\ aProfile = [r \in Requests |-> None]
    /\ aTop = [r \in Requests |-> None]
    /\ aOutcome = [r \in Requests |-> "none"]
    /\ aStartLen = [r \in Requests |-> 0]
    /\ aReadLen = [r \in Requests |-> 0]
    /\ recMeta = <<>>
    /\ ProfIdle /\ MatchIdle

Handlers ==
    \/ \E e \in InteractionInputs : track_interaction(e)
    \/ \E r \in Requests, sid \in SessionIds : analyze_begin(r, sid)
    \/ \E r \in Requests : analyze_find_events(r)
    \/ \E r \in Requests : analyze_find_teas(r)
    \/ \E r \in Requests : analyze_create(r)

\* processes start at any time: seeding runs may overlap
Next ==
    \/ \E p \in Processes : Startup(p)
    \/ \E p \in Processes : SeedCount(p)
    \/ \E p \in Processes : SeedInsert(p)
    \/ Handlers

Spec == Init /\ [][Next]_vars

\* processes start one after the other: no seeding run begins while another runs
NextSeq ==
    \/ \E p \in Processes : SeedRunning = {} /\ Startup(p)
    \/ \E p \in Processes : SeedCount(p)
    \/ \E p \in Processes : SeedInsert(p)
    \/ Handlers

SpecSeq == Init /\ [][NextSeq]_vars

\* ======================================================== claims: the profile
\* C1 (as claimed): after every single event each of the four accumulators
\* lies in [0,100], and compute_profile returns a profile whose four axes lie
\* in [0,100].
C1_AxesAlwaysInRange ==
    /\ AxisValid(calm) /\ AxisValid(clarity) /\ AxisValid(energy) /\ AxisValid(grounding)
    /\ (pPc = "done" /\ pResult # None) =>
          /\ pResult.status = "ok"
          /\ AxisValid(pResult.calmness) /\ AxisValid(pResult.clarity)
          /\ AxisValid(pResult.energy) /\ AxisValid(pResult.grounding)

\* the list es with its elements at i and i + 1 exchanged
SwapAdjacent(es, i) ==
    [k \in 1..Len(es) |-> IF k = i THEN es[i + 1] ELSE IF k = i + 1 THEN es[i] ELSE es[k]]

\* the accumulators the spec's effect table names for each event type
Adjusts(t) ==
    CASE t = "cloud_touch" -> {"calmness", "grounding"}
      [] t = "light_collect" -> {"energy", "clarity"}
      [] t = "maze_time" -> {"clarity", "grounding"}
      [] t = "breath_pace" -> {"calmness"}
      [] t = "scroll_depth" -> {"energy"}
      [] t = "companion_tap" -> {"grounding"}

DoneProfile == pPc = "done" /\ pResult # None

\* C2 (as claimed), taken on the event lists that carry no negative value (on
\* which no accumulator ever leaves [0,100]): exchanging two neighbouring
\* events of different types never changes what compute_profile yields
\* (every reordering that keeps the order within each type is a chain of
\* such exchanges).
C2_OrderIndependentAcrossTypes ==
    (DoneProfile /\ \A k \in 1..Len(events) : events[k].value = None \/ events[k].value[1] >= 0) =>
        \A i \in 1..(Len(events) - 1) :
            events[i].type # events[i + 1].type
                => compute_profile(SwapAdjacent(events, i)) = pResult

\* C2 (amended): exchanging two neighbouring events whose types adjust no
\* accumulator in common never changes what compute_profile yields.
C2_OrderIndependentDisjointTypes ==
    DoneProfile =>
        \A i \in 1..(Len(events) - 1) :
            Adjusts(events[i].type) \cap Adjusts(events[i + 1].type) = {}
                => compute_profile(SwapAdjacent(events, i)) = pResult

\* C2 witness: a finished run over three events in which two neighbours of
\* independent types were exchangeable after an accumulator had left the
\* range a clamp would keep it in.
C2_Witness ==
    /\ DoneProfile /\ Len(events) = 3
    /\ events[1].type = "maze_time" /\ events[1].value = Some(-300)
    /\ events[2].type = "breath_pace" /\ events[3].type = "light_collect"
    /\ events[3].intensity = Some(10)
    /\ compute_profile(SwapAdjacent(events, 2)) = pResult

\* a step of the loop that processes a cloud_touch event
CloudTouchStep == pPc = "loop" /\ idx <= Len(events) /\ events[idx].type = "cloud_touch"

\* C5 (as claimed): a cloud_touch with intensity i in [0,10], i = 0 included,
\* sets calmness to max(0, calm - 3i) and grounding to min(100, grounding + 2i)
\* and leaves clarity and energy alone; a missing intensity counts as 1; one
\* cloud_touch of intensity 2 on the baseline gives 44 / 50 / 50 / 54.
C5_CloudTouchEffect ==
    /\ [][CloudTouchStep =>
            LET i == IF events[idx].intensity = None THEN 1 ELSE events[idx].intensity[1]
            IN  /\ calm' = Max(0, calm - 3 * i * Scale)
                /\ grounding' = Min(100 * Scale, grounding + 2 * i * Scale)
                /\ clarity' = clarity /\ energy' = energy]_vars
    /\ []((DoneProfile /\ events = <<Event("s1", "cloud_touch", Some(2), None)>>) =>
            pResult = [status |-> "ok", calmness |-> 44 * Scale, clarity |-> 50 * Scale,
                       energy |-> 50 * Scale, grounding |-> 54 * Scale])

\* ======================================================== claims: the matcher
DoneMatch == mPc = "done"

\* the slugs of the whole ranking, best first
RankedSlugs == [k \in 1..Len(ordered) |-> mTeas[ordered[k]].slug]

Scenario3 == DoneMatch /\ mProfile = Profile(90, 40, 10, 60) /\ mTeas = DEFAULT_TEAS

\* C3 (as claimed): for the profile 90 / 40 / 10 / 60 and the 4 default teas
\* the ranking puts baldrian first and ingwer last.
C3_BaldrianFirstIngwerLast ==
    Scenario3 => RankedSlugs[1] = "baldrian" /\ RankedSlugs[4] = "ingwer"

\* C3 (amended): for the profile 90 / 40 / 10 / 60 and the 4 default teas the
\* ranking puts kamille first (its axes are the normalized profile), baldrian
\* second and ingwer last; match_teas returns kamille, baldrian, melisse.
C3_KamilleFirstIngwerLast ==
    Scenario3 =>
        /\ RankedSlugs[1] = "kamille" /\ RankedSlugs[2] = "baldrian" /\ RankedSlugs[4] = "ingwer"
        /\ top = <<"kamille", "baldrian", "melisse">>

\* C3 witness: the scenario has been matched.
C3_Witness == Scenario3 /\ Len(top) = 3 /\ top[1] = "kamille"

\* C4: match_teas returns min(3, catalog size) slugs, each the slug of a
\* catalog entry, no catalog entry used twice.
C4_AtMostThreeFromCatalog ==
    DoneMatch =>
        /\ Len(top) = Min(3, Len(mTeas))
        /\ Len(top) <= 3 /\ Len(top) <= Len(mTeas)
        /\ \E pos \in [1..Len(top) -> 1..Len(mTeas)] :
              /\ \A k \in 1..Len(top) : top[k] = mTeas[pos[k]].slug
              /\ \A k, m \in 1..Len(top) : k # m => pos[k] # pos[m]

\* C4 witness: a catalog of 4 entries, two of them the same tea, gave 3 slugs,
\* one slug twice.
C4_Witness ==
    /\ DoneMatch /\ Len(mTeas) = 4 /\ Len(top) = 3
    /\ \E k, m \in 1..3 : k # m /\ top[k] = top[m]

\* C8: the ranking is by descending similarity, and of two teas of equal
\* similarity the one earlier in the catalog comes earlier in the ranking;
\* the result is the first three of that ranking.
C8_DescendingStable ==
    DoneMatch =>
        /\ Len(ordered) = Len(mTeas)
        /\ \A i, j \in 1..Len(ordered) :
              i < j =>
                  LET c == CmpScore(mProfile, mTeas[ordered[i]], mTeas[ordered[j]])
                  IN  c >= 0 /\ (c = 0 => ordered[i] < ordered[j])
        /\ top = [k \in 1..Min(3, Len(ordered)) |-> mTeas[ordered[k]].slug]

\* C8 witness: two different teas of equal, non-zero similarity, the earlier
\* one returned in the top 3 and the later one cut off.
C8_Witness ==
    /\ DoneMatch /\ Len(mTeas) = 4
    /\ \E i \in 1..3 :
          /\ CmpScore(mProfile, mTeas[ordered[i]], mTeas[ordered[4]]) = 0
          /\ Dot(mProfile, mTeas[ordered[4]]) > 0
          /\ mTeas[ordered[i]].slug # mTeas[ordered[4]].slug
          /\ ordered[i] < ordered[4]

\* ======================================================== claims: the service
\* C6: with the database available and seeding runs that do not overlap, the
\* catalog is empty until the first run returns and holds exactly the 4
\* default teas after every run, however many have returned.
C6_SeedOnceThenNoOp ==
    /\ SeedRunsDone = {} => tea = <<>>
    /\ (dbAvailable /\ SeedRunsDone # {}) => tea = DEFAULT_TEAS

\* C6 witness: a second seeding run has returned and the catalog is still
\* the 4 default teas.
C6_Witness == dbAvailable /\ Cardinality(SeedRunsDone) >= 2 /\ tea = DEFAULT_TEAS

\* C9 (as claimed): with seeding runs that may overlap, the catalog never
\* holds more than 4 teas and no slug occurs twice.
C9_CatalogAtMostFourUnique ==
    /\ Len(tea) <= 4
    /\ \A i, j \in 1..Len(tea) : i # j => tea[i].slug # tea[j].slug

\* C7: without a database an /analyze call ends at once with an error: it
\* reads nothing, computes nothing, writes no recommendation and leaves the
\* three collections as they were.
C7_AnalyzeFailsWithoutDb ==
    /\ [](~dbAvailable =>
            /\ recommendation = <<>>
            /\ \A r \in Requests :
                  /\ aPc[r] \in {"idle", "done"}
                  /\ aProfile[r] = None /\ aTop[r] = None
                  /\ aPc[r] = "done" => aOutcome[r] = "error500")
    /\ [][\A r \in Requests :
            (~dbAvailable /\ aPc[r] = "idle" /\ aPc'[r] # "idle") =>
                /\ aPc'[r] = "done" /\ aOutcome'[r] = "error500"
                /\ UNCHANGED storeVars]_vars

\* C7 witness: an /analyze call has failed for want of a database.
C7_Witness == ~dbAvailable /\ \E r \in Requests : aPc[r] = "done" /\ aOutcome[r] = "error500"

\* C10: every recommendation written for session s carries compute_profile
\* of exactly the events of s among those stored when the call read the
\* event store, which include all stored when the call started; each
\* successful call appends exactly one record, for its session, and no step
\* of a call changes the event store or the catalog.
C10_RecordReflectsSessionSnapshot ==
    /\ [](/\ Len(recMeta) = Len(recommendation)
          /\ Len(recommendation) = Cardinality({r \in Requests : aOutcome[r] = "ok"})
          /\ \A k \in 1..Len(recommendation) :
                LET rec == recommendation[k]
                    m == recMeta[k]
                    snapshot == SubSeq(interactionevent, 1, m.readLen)
                IN  /\ m.startLen <= m.readLen /\ m.readLen <= Len(interactionevent)
                    /\ rec.profile.status = "ok"
                    /\ rec.profile =
                          compute_profile(SelectSeq(snapshot, LAMBDA e : e.session_id = rec.session_id)))
    /\ [][\A r \in Requests :
            aPc'[r] # aPc[r] =>
                /\ interactionevent' = interactionevent /\ tea' = tea
                /\ IF aOutcome[r] = "none" /\ aOutcome'[r] = "ok"
                   THEN /\ Len(recommendation') = Len(recommendation) + 1
                        /\ SubSeq(recommendation', 1, Len(recommendation)) = recommendation
                        /\ recommendation'[Len(recommendation')].session_id = aSession[r]
                   ELSE recommendation' = recommendation]_vars

\* C10 witness: a record whose snapshot holds an event of another session and
\* an event of its own session that was inserted after the call had started.
C10_Witness ==
    \E k \in 1..Len(recommendation) :
        LET rec == recommendation[k]
            m == recMeta[k]
        IN  /\ \E i \in 1..m.readLen : interactionevent[i].session_id # rec.session_id
            /\ \E i \in (m.startLen + 1)..m.readLen :
                  interactionevent[i].session_id = rec.session_id
            /\ rec.profile # compute_profile(<<>>)

====
